---- MODULE Spec2Model ----
(***************************************************************************)
(* Model of the Warely ai-service health endpoints                          *)
(* (services/ai-service/app/routes/health.py, mounted by app/main.py).      *)
(*                                                                          *)
(* Two clients send GET requests to the service.  A request is routed to    *)
(* an endpoint, the endpoint runs statement by statement (so the host       *)
(* clock may move, and the other client's request may run, between two      *)
(* statements), and the framework turns what the endpoint returned or       *)
(* raised into an HTTP response.  Python's None is the empty tuple <<>>     *)
(* and a bound value v is <<v>>.                                            *)
(*                                                                          *)
(* The program keeps no state between requests: environ and now belong to   *)
(* the process and the host, req holds the locals of the calls in progress. *)
(* lastTimestamp and clockSetBack are history variables: they record what   *)
(* an observer of the responses has seen and are read by no endpoint.       *)
(* The clock is the wall clock datetime.utcnow() reads: it advances, and    *)
(* it can be set back (clock synchronisation, a leap second, an operator).  *)
(***************************************************************************)
EXTENDS Integers, Sequences, FiniteSets, TLC

VARIABLES
    environ,        \* os.environ of the process: a function from names to strings
    now,            \* the host's UTC wall clock: [second, microsecond]
    req,            \* per client: the request in progress and the endpoint's locals
    lastTimestamp,  \* history: timestamp of the latest health_check report, or <<>>
    clockSetBack    \* history: the wall clock was set back since that report

vars == <<environ, now, req, lastTimestamp, clockSetBack>>

(***************************************************************************)
(* Bounds and input sets                                                    *)
(***************************************************************************)
MaxSecond == 1

Microseconds == {0, 500000}

Clients == {"c1", "c2"}

RequestPaths == {"/health", "/health/detailed", "/hello", "/healthz"}

EnvValues == {"", "staging", "production"}

\* what psutil.virtual_memory() can read: percent used, bytes available
VirtualMemories == {[percent |-> 40, available |-> 8192],
                    [percent |-> 90, available |-> 1024]}

\* what psutil.cpu_percent() can read
CpuPercents == {0, 75}

\* exceptions the metrics reads can raise: class and constructor arguments
Faults == {[cls |-> "RuntimeError", args |-> <<>>],
           [cls |-> "OSError", args |-> <<"Permission denied">>]}

Times == [second : 0..MaxSecond, microsecond : Microseconds]

Environs == {[n \in D |-> v] : D \in SUBSET {"NODE_ENV"}, v \in EnvValues}

(***************************************************************************)
(* Library functions the endpoints call                                     *)
(***************************************************************************)
\* the direct base class of each exception class
Base(cls) ==
    CASE cls = "RuntimeError" -> "Exception"
      [] cls = "OSError" -> "Exception"
      [] cls = "Exception" -> "BaseException"
      [] cls = "KeyboardInterrupt" -> "BaseException"
      [] OTHER -> "object"

RECURSIVE IsSubclass(_, _)
IsSubclass(cls, of) ==
    IF cls = of THEN TRUE
    ELSE IF cls = "object" THEN FALSE
    ELSE IsSubclass(Base(cls), of)

\* str(e) of an exception: "" without arguments, the argument when there is one
str(e) == IF e.args = <<>> THEN "" ELSE e.args[1]

\* os.getenv(key, default): the default only when the key is absent
getenv_falsy(key, default) ==
    IF key \in DOMAIN environ /\ environ[key] # "" THEN environ[key] ELSE default

getenv(key, default) ==
    IF key \in DOMAIN environ THEN environ[key] ELSE default

\* datetime.isoformat(): the fields in order, most significant first, each of
\* fixed width; the microseconds are left out when they are zero
isoformat_reversed(t) ==
    IF t.microsecond = 0 THEN <<t.second>> ELSE <<t.microsecond, t.second>>

isoformat(t) ==
    IF t.microsecond = 0 THEN <<t.second>> ELSE <<t.second, t.microsecond>>

\* order of two ISO texts, as strings compare: field by field, a prefix first
RECURSIVE TextLeq(_, _)
TextLeq(a, b) ==
    IF a = <<>> THEN TRUE
    ELSE IF b = <<>> THEN FALSE
    ELSE IF Head(a) # Head(b) THEN Head(a) < Head(b)
    ELSE TextLeq(Tail(a), Tail(b))

\* order of two clock readings
TimeLeq(s, t) ==
    \/ s.second < t.second
    \/ s.second = t.second /\ s.microsecond <= t.microsecond

(***************************************************************************)
(* Routing (main.py)                                                        *)
(***************************************************************************)
\* the routes of health.router: path and endpoint
RouterRoutes == {[path |-> "", endpoint |-> "health_check"],
                 [path |-> "/detailed", endpoint |-> "detailed_health"]}

IncludeRouter_no_prefix(routes, prefix) == routes

\* app.include_router(router, prefix=...)
IncludeRouter(routes, prefix) ==
    {[path |-> prefix \o r.path, endpoint |-> r.endpoint] : r \in routes}

AppRoutes ==
    IncludeRouter(RouterRoutes, "/health")
        \cup {[path |-> "/hello", endpoint |-> "root"]}

\* the endpoint a path is routed to, or "" when no route matches
Route(path) ==
    IF \E r \in AppRoutes : r.path = path
    THEN (CHOOSE r \in AppRoutes : r.path = path).endpoint
    ELSE ""

(***************************************************************************)
(* The reports the endpoints build                                          *)
(***************************************************************************)
BasicReport_stale_version(t) ==
    [status |-> "ok",
     service |-> "ai-service",
     timestamp |-> isoformat(t),
     version |-> "0.9.0"]

BasicReport(t) ==
    [status |-> "ok",
     service |-> "ai-service",
     timestamp |-> isoformat(t),
     version |-> "1.0.0"]

OkReport_swapped(memory, cpu_percent, t) ==
    [status |-> "ok",
     service |-> "ai-service",
     timestamp |-> isoformat(t),
     version |-> "1.0.0",
     system |-> [cpu_percent |-> memory.percent,
                 memory_percent |-> cpu_percent,
                 memory_available |-> memory.available,
                 environment |-> getenv("NODE_ENV", "production")],
     dependencies |-> [tensorflow |-> "ready",
                       mongodb |-> "connected",
                       redis |-> "connected"]]

OkReport(memory, cpu_percent, t) ==
    [status |-> "ok",
     service |-> "ai-service",
     timestamp |-> isoformat(t),
     version |-> "1.0.0",
     system |-> [cpu_percent |-> cpu_percent,
                 memory_percent |-> memory.percent,
                 memory_available |-> memory.available,
                 environment |-> getenv("NODE_ENV", "production")],
     dependencies |-> [tensorflow |-> "ready",
                       mongodb |-> "connected",
                       redis |-> "connected"]]

ErrorReport_class(e, t) ==
    [status |-> "error",
     error |-> e.cls,
     timestamp |-> isoformat(t)]

ErrorReport_fallback(e, t) ==
    [status |-> "error",
     error |-> IF str(e) = "" THEN "unknown error" ELSE str(e),
     timestamp |-> isoformat(t)]

ErrorReport_with_dependencies(e, t) ==
    [status |-> "error",
     error |-> str(e),
     timestamp |-> isoformat(t),
     dependencies |-> [tensorflow |-> "ready",
                       mongodb |-> "connected",
                       redis |-> "connected"]]

ErrorReport(e, t) ==
    [status |-> "error",
     error |-> str(e),
     timestamp |-> isoformat(t)]

(***************************************************************************)
(* The framework around an endpoint                                         *)
(***************************************************************************)
\* the except clause of detailed_health: `except Exception`
Catches_OSError_only(e) == IsSubclass(e.cls, "OSError")

Catches(e) == IsSubclass(e.cls, "Exception")

\* HTTP status of a request: 404 without a route, 500 when the endpoint raised,
\* otherwise the route's default status code
StatusCode(endpoint, raised) ==
    IF endpoint = "" THEN 404
    ELSE IF raised # <<>> THEN 500
    ELSE 200

Idle ==
    [pc |-> "idle", path |-> "", endpoint |-> "",
     memory |-> <<>>, cpu_percent |-> <<>>, e |-> <<>>,
     returned |-> <<>>, raised |-> <<>>, status_code |-> 0]

\* the endpoint returned `value`: the framework answers with it
Returned(rq, value) ==
    [rq EXCEPT !.pc = "done", !.returned = <<value>>,
               !.status_code = StatusCode(rq.endpoint, <<>>)]

\* the endpoint let `exc` escape: the framework answers for it
Raised(rq, exc) ==
    [rq EXCEPT !.pc = "done", !.raised = <<exc>>,
               !.status_code = StatusCode(rq.endpoint, <<exc>>)]

\* a statement inside the try block raised `exc`
RaisedInTry(rq, exc) ==
    IF Catches(exc) THEN [rq EXCEPT !.pc = "except", !.e = <<exc>>]
    ELSE Raised(rq, exc)

(***************************************************************************)
(* State machine                                                            *)
(***************************************************************************)
Init ==
    /\ environ \in Environs
    /\ now \in Times
    /\ req = [c \in Clients |-> Idle]
    /\ lastTimestamp = <<>>
    /\ clockSetBack = FALSE

\* a GET request of client c arrives and is routed
Arrive(c, path) ==
    /\ req[c].pc = "idle"
    /\ LET ep == Route(path)
           rq == [Idle EXCEPT !.path = path, !.endpoint = ep]
       IN req' = [req EXCEPT ![c] =
                    IF ep = "" THEN [rq EXCEPT !.pc = "done",
                                               !.status_code = StatusCode(ep, <<>>)]
                    ELSE [rq EXCEPT !.pc = ep]]
    /\ UNCHANGED <<environ, now, lastTimestamp, clockSetBack>>

\* health.py 9-16
health_check(c) ==
    /\ req[c].pc = "health_check"
    /\ req' = [req EXCEPT ![c] = Returned(@, BasicReport(now))]
    /\ lastTimestamp' = <<BasicReport(now).timestamp>>
    /\ clockSetBack' = FALSE
    /\ UNCHANGED <<environ, now>>

\* main.py 30-32
root(c) ==
    /\ req[c].pc = "root"
    /\ req' = [req EXCEPT ![c] = Returned(@, "Hello from Warely AI-Service")]
    /\ UNCHANGED <<environ, now, lastTimestamp, clockSetBack>>

\* health.py 19-21: entering the try block
detailed_health(c) ==
    /\ req[c].pc = "detailed_health"
    /\ req' = [req EXCEPT ![c].pc = "virtual_memory"]
    /\ UNCHANGED <<environ, now, lastTimestamp, clockSetBack>>

\* health.py 23: memory = psutil.virtual_memory()
ReadMemory(c) ==
    /\ req[c].pc = "virtual_memory"
    /\ \/ \E m \in VirtualMemories :
            req' = [req EXCEPT ![c].memory = <<m>>, ![c].pc = "cpu_percent"]
       \/ \E f \in Faults :
            req' = [req EXCEPT ![c] = RaisedInTry(@, f)]
    /\ UNCHANGED <<environ, now, lastTimestamp, clockSetBack>>

\* health.py 24: cpu_percent = psutil.cpu_percent()
ReadCpu(c) ==
    /\ req[c].pc = "cpu_percent"
    /\ \/ \E p \in CpuPercents :
            req' = [req EXCEPT ![c].cpu_percent = <<p>>, ![c].pc = "return"]
       \/ \E f \in Faults :
            req' = [req EXCEPT ![c] = RaisedInTry(@, f)]
    /\ UNCHANGED <<environ, now, lastTimestamp, clockSetBack>>

\* the environment name stored with os.environ.setdefault instead of read
ReturnOk_setdefault(c) ==
    /\ req[c].pc = "return"
    /\ environ' = [n \in {"NODE_ENV"} |-> getenv("NODE_ENV", "production")]
    /\ req' = [req EXCEPT ![c] =
                 Returned(@, OkReport(@.memory[1], @.cpu_percent[1], now))]
    /\ UNCHANGED <<now, lastTimestamp, clockSetBack>>

\* health.py 26-42
ReturnOk(c) ==
    /\ req[c].pc = "return"
    /\ req' = [req EXCEPT ![c] =
                 Returned(@, OkReport(@.memory[1], @.cpu_percent[1], now))]
    /\ UNCHANGED <<environ, now, lastTimestamp, clockSetBack>>

\* health.py 43-48
Except(c) ==
    /\ req[c].pc = "except"
    /\ req' = [req EXCEPT ![c] = Returned(@, ErrorReport(@.e[1], now))]
    /\ UNCHANGED <<environ, now, lastTimestamp, clockSetBack>>

\* the response has been sent; the client may send its next request
Complete(c) ==
    /\ req[c].pc = "done"
    /\ req' = [req EXCEPT ![c] = Idle]
    /\ UNCHANGED <<environ, now, lastTimestamp, clockSetBack>>

\* time passes on the host
Tick ==
    /\ \E t \in Times : ~TimeLeq(t, now) /\ now' = t
    /\ UNCHANGED <<environ, req, lastTimestamp, clockSetBack>>

\* the host's wall clock is set back (a clock synchronisation step, an operator)
SetClockBack ==
    /\ \E t \in Times : t # now /\ TimeLeq(t, now) /\ now' = t
    /\ clockSetBack' = TRUE
    /\ UNCHANGED <<environ, req, lastTimestamp>>

Step(c) ==
    \/ \E path \in RequestPaths : Arrive(c, path)
    \/ health_check(c)
    \/ root(c)
    \/ detailed_health(c)
    \/ ReadMemory(c)
    \/ ReadCpu(c)
    \/ ReturnOk(c)
    \/ Except(c)
    \/ Complete(c)

Next ==
    \/ \E c \in Clients : Step(c)
    \/ Tick
    \/ SetClockBack

Spec == Init /\ [][Next]_vars

(***************************************************************************)
(* Properties                                                               *)
(***************************************************************************)
\* client c's request to `endpoint` has been answered
Answered(c, endpoint) == req[c].pc = "done" /\ req[c].endpoint = endpoint

\* the metrics collection of c's answered detailed_health call raised
Failed(c) == Answered(c, "detailed_health") /\ req[c].e # <<>>

\* the metrics collection of c's answered detailed_health call succeeded
Succeeded(c) ==
    /\ Answered(c, "detailed_health")
    /\ req[c].memory # <<>>
    /\ req[c].cpu_percent # <<>>

\* the ISO texts of the clock readings
Timestamps == {isoformat(t) : t \in Times}

\* C1: detailed_health is total: whether the memory read and the CPU read
\* succeed or raise, the call returns a report and no exception escapes it.
C1_DetailedHealthTotal ==
    \A c \in Clients :
        /\ req[c].endpoint = "detailed_health" => req[c].raised = <<>>
        /\ Answered(c, "detailed_health") =>
              /\ req[c].returned # <<>>
              /\ req[c].returned[1].status \in {"ok", "error"}

C1_Witness ==
    \E c, d \in Clients :
        /\ Failed(c) /\ req[c].e[1].cls = "RuntimeError" /\ req[c].returned # <<>>
        /\ Succeeded(d) /\ req[d].returned # <<>>

\* C2: every health_check call succeeds and returns status "ok", service
\* "ai-service", version "1.0.0" and a timestamp, whatever the host state and
\* the calls before it.
C2_BasicHealthOk ==
    \A c \in Clients :
        /\ req[c].endpoint = "health_check" => req[c].raised = <<>>
        /\ Answered(c, "health_check") =>
              /\ req[c].returned # <<>>
              /\ DOMAIN req[c].returned[1] =
                    {"status", "service", "timestamp", "version"}
              /\ req[c].returned[1].status = "ok"
              /\ req[c].returned[1].service = "ai-service"
              /\ req[c].returned[1].version = "1.0.0"
              /\ req[c].returned[1].timestamp \in Timestamps

C2_Witness ==
    \E c, d \in Clients :
        /\ Answered(c, "health_check") /\ Answered(d, "health_check")
        /\ req[c].returned[1].timestamp # req[d].returned[1].timestamp
        /\ req[c].returned[1].version = req[d].returned[1].version

\* C3 as stated: when the metrics collection raises, the report has status
\* "error", a field error_message with the failure's text, a timestamp, and
\* none of system, dependencies, service, version.
C3_ErrorMessageField ==
    \A c \in Clients :
        Failed(c) =>
            LET r == req[c].returned[1] IN
            /\ r.status = "error"
            /\ "error_message" \in DOMAIN r
            /\ r.error_message = str(req[c].e[1])
            /\ "timestamp" \in DOMAIN r
            /\ DOMAIN r \cap {"system", "dependencies", "service", "version"} = {}

\* C3 amended: when the metrics collection raises, the report has exactly the
\* fields status, error and timestamp: status is "error", error is the
\* failure's text (the field is named error, not error_message), and system,
\* dependencies, service and version are absent.
C3_ErrorReportShape ==
    \A c \in Clients :
        Failed(c) =>
            LET r == req[c].returned[1] IN
            /\ DOMAIN r = {"status", "error", "timestamp"}
            /\ r.status = "error"
            /\ r.error = (IF req[c].e[1].args = <<>> THEN "" ELSE req[c].e[1].args[1])
            /\ r.timestamp \in Timestamps

C3_Witness ==
    \E c \in Clients :
        /\ Failed(c)
        /\ req[c].e[1].args = <<"Permission denied">>
        /\ req[c].returned[1].error = "Permission denied"

\* C4 as stated: for every fault injected into the metrics collection, one with
\* an empty text included, the report has status "error" and a non-empty error
\* message.
C4_ErrorMessageNonEmpty ==
    \A c \in Clients :
        Failed(c) =>
            /\ req[c].returned[1].status = "error"
            /\ req[c].returned[1].error # ""

\* C4 amended: for every fault injected into the metrics collection the report
\* has status "error" and its error message is the fault's text: non-empty
\* exactly when that text is non-empty, and empty for a fault with no text.
C4_ErrorMessageIsFaultText ==
    \A c \in Clients :
        Failed(c) =>
            /\ req[c].returned[1].status = "error"
            /\ "error" \in DOMAIN req[c].returned[1]
            /\ (req[c].returned[1].error = "") <=>
                  (\/ req[c].e[1].args = <<>>
                   \/ req[c].e[1].args[1] = "")

C4_Witness ==
    \E c \in Clients :
        /\ Failed(c)
        /\ req[c].e[1].args = <<>>
        /\ req[c].returned[1].status = "error"
        /\ req[c].returned[1].error = ""

\* C5: when the metrics collection succeeds, the report has status "ok",
\* service, version, timestamp, a system block with the CPU percentage, memory
\* percentage, available bytes and environment name that were read, and the
\* dependencies block {tensorflow: ready, mongodb: connected, redis: connected}.
C5_OkReport ==
    \A c \in Clients :
        Succeeded(c) =>
            LET r == req[c].returned[1] IN
            /\ DOMAIN r = {"status", "service", "timestamp", "version",
                           "system", "dependencies"}
            /\ r.status = "ok"
            /\ r.service = "ai-service"
            /\ r.version = "1.0.0"
            /\ r.timestamp \in Timestamps
            /\ r.system = [cpu_percent |-> req[c].cpu_percent[1],
                           memory_percent |-> req[c].memory[1].percent,
                           memory_available |-> req[c].memory[1].available,
                           environment |-> getenv("NODE_ENV", "production")]
            /\ r.dependencies = [tensorflow |-> "ready",
                                 mongodb |-> "connected",
                                 redis |-> "connected"]

C5_Witness ==
    \E c \in Clients :
        /\ Succeeded(c)
        /\ req[c].returned[1].system.cpu_percent = 75
        /\ req[c].returned[1].system.memory_percent = 40
        /\ req[c].returned[1].dependencies.tensorflow = "ready"

\* C6 as stated: in a successful report system.environment is the value of
\* NODE_ENV when it is set, and is "production" exactly when it is unset.
C6_ProductionIffUnset ==
    \A c \in Clients :
        Succeeded(c) =>
            LET env == req[c].returned[1].system.environment IN
            /\ "NODE_ENV" \in DOMAIN environ => env = environ["NODE_ENV"]
            /\ env = "production" <=> "NODE_ENV" \notin DOMAIN environ

\* C6 amended: in a successful report system.environment is the value of
\* NODE_ENV when it is set, the empty string included, and is "production" when
\* it is unset; so it is "production" exactly when NODE_ENV is unset or is
\* itself "production".
C6_EnvironmentName ==
    \A c \in Clients :
        Succeeded(c) =>
            LET env == req[c].returned[1].system.environment IN
            /\ "NODE_ENV" \in DOMAIN environ => env = environ["NODE_ENV"]
            /\ "NODE_ENV" \notin DOMAIN environ => env = "production"
            /\ env = "production" <=>
                  (\/ "NODE_ENV" \notin DOMAIN environ
                   \/ environ["NODE_ENV"] = "production")

C6_Witness ==
    \E c \in Clients :
        /\ Succeeded(c)
        /\ "NODE_ENV" \in DOMAIN environ
        /\ environ["NODE_ENV"] = ""
        /\ req[c].returned[1].system.environment = ""

\* C7: GET /health and GET /health/detailed are answered with status 200 in
\* every case, the error report included; only the status field of the body
\* tells a failure.
C7_AlwaysTransport200 ==
    \A c \in Clients :
        req[c].pc = "done" /\ req[c].path \in {"/health", "/health/detailed"} =>
            /\ req[c].status_code = 200
            /\ req[c].returned # <<>>
            /\ req[c].returned[1].status = "error" <=> req[c].e # <<>>

C7_Witness ==
    \E c, d \in Clients :
        /\ Failed(c) /\ req[c].path = "/health/detailed" /\ req[c].status_code = 200
        /\ Succeeded(d) /\ req[d].status_code = 200

\* C8 as stated: the timestamp of a health_check call is never smaller than the
\* timestamp of the health_check call before it.
C8_TimestampsNeverDecrease ==
    [][\A c \in Clients :
          health_check(c) /\ lastTimestamp # <<>> =>
              TextLeq(lastTimestamp[1], lastTimestamp'[1])]_vars

\* C8 amended: the timestamp of a health_check call is never smaller than the
\* timestamp of the health_check call before it, provided the host's wall
\* clock was not set back between the two calls.
C8_NeverDecreaseUnlessSetBack ==
    [][\A c \in Clients :
          health_check(c) /\ lastTimestamp # <<>> /\ ~clockSetBack =>
              TextLeq(lastTimestamp[1], lastTimestamp'[1])]_vars

C8_Witness ==
    \E c, d \in Clients :
        /\ Answered(c, "health_check") /\ Answered(d, "health_check")
        /\ ~clockSetBack
        /\ lastTimestamp = <<req[d].returned[1].timestamp>>
        /\ req[c].returned[1].timestamp # req[d].returned[1].timestamp
        /\ TextLeq(req[c].returned[1].timestamp, req[d].returned[1].timestamp)

\* a statement of one of the two health endpoints runs for client c
HealthStep(c) ==
    \/ health_check(c)
    \/ detailed_health(c)
    \/ ReadMemory(c)
    \/ ReadCpu(c)
    \/ ReturnOk(c)
    \/ Except(c)

\* the report without its timestamp
Untimed(r) == [k \in DOMAIN r \ {"timestamp"} |-> r[k]]

C10_TwoShapes ==
    \A c \in Clients :
        Answered(c, "detailed_health") /\ req[c].returned # <<>> =>
            LET r == req[c].returned[1]
                keys == DOMAIN r
            IN
            /\ r.status \in {"ok", "error"}
            /\ r.status = "ok" <=>
                  ({"system", "dependencies"} \subseteq keys /\ "error" \notin keys)
            /\ r.status = "error" <=>
                  ("error" \in keys /\ keys \cap {"system", "dependencies"} = {})
            /\ "system" \in keys =>
                  DOMAIN r.system = {"cpu_percent", "memory_percent",
                                     "memory_available", "environment"}
            /\ req[c].memory # <<>> /\ req[c].cpu_percent = <<>> =>
                  "system" \notin keys

C10_Witness ==
    \E c \in Clients :
        /\ Failed(c)
        /\ req[c].memory # <<>>
        /\ req[c].cpu_percent = <<>>
        /\ req[c].returned[1].status = "error"
        /\ "system" \notin DOMAIN req[c].returned[1]

====
